---- MODULE Spec2Model ----
(***************************************************************************)
(* Model of run.py: the camera session (start_camera, stop_camera,         *)
(* toggle_detection, get_status), the capture thread (capture_frames) and  *)
(* the streaming generator (generate).  The Flask server runs threaded, so *)
(* request handlers, capture threads and generators interleave at every    *)
(* access to a module-level global.                                        *)
(***************************************************************************)
EXTENDS Integers, FiniteSets, Sequences, TLC

\* Bounds of the model.
MaxOpens == 2       \* cv2.VideoCapture(0) calls in one behaviour
MaxFrames == 2      \* successful camera.read() calls in one behaviour

Handlers == {"h1", "h2"}        \* request-handling threads of the server
SeqHandler == "h1"              \* the only one busy when requests come one at a time
Generators == {"g1", "g2"}      \* generate() instances (one per /video_feed)
OneViewer == "g1"               \* the only one there when a single client watches
Threads == 1..MaxOpens          \* capture_frames threads, in spawn order
Handles == 1..MaxOpens          \* cv2.VideoCapture objects, in creation order

None == 0                       \* camera = None
Bodies == {"nojson", "true", "false", "bad"}    \* request bodies of /start_camera

VARIABLES
    camera,             \* global camera: None or a handle
    hstate,             \* per handle: "unborn", "opened", "failed", "released"
    output_frame,       \* global output_frame: NoFrame or a frame
    lock,               \* holder of the global lock, or "free"
    detection_enabled,  \* global detection_enabled
    modelFile,          \* environment: yolov5s.pt exists
    loadOk,             \* environment: torch.hub.load succeeds when the file exists
    inferOk,            \* environment: model(rgb_frame) returns rather than raises
    model,              \* global model: "none" or "loaded"
    pc, ret,            \* per handler: position, response of its last call
    tmp,                \* per handler: local of toggle_detection / get_status
    cpc, cframe,        \* per capture thread: position, local frame
    gpc, genc, emitted, \* per generator: position, frame encoded, last frame sent
    opens,              \* number of cv2.VideoCapture(0) calls so far
    spawned,            \* number of capture threads started so far
    nextSeq,            \* number of frames read from the camera so far
    session,            \* history: "Running" from a successful start to a successful stop
    repeat              \* history: per handler, its call repeats the route of the call
                        \* it answered with success just before

env == <<modelFile, loadOk, inferOk>>

vars == <<camera, hstate, output_frame, lock, detection_enabled, env, model,
          pc, ret, tmp, cpc, cframe, gpc, genc, emitted,
          opens, spawned, nextSeq, session, repeat>>

hvars == <<pc, ret, tmp>>
cvars == <<cpc, cframe>>
gvars == <<gpc, genc, emitted>>

NoFrame == [seq |-> 0, det |-> FALSE, on |-> FALSE, boxes |-> FALSE]

BoolStr(b) == IF b THEN "true" ELSE "false"

\* jsonify(...) of a route: a key the response does not carry is "absent".
Response(route, status, success) ==
    [route |-> route, status |-> status, success |-> success,
     detection_enabled |-> "absent", camera_running |-> "absent"]

NoResponse == Response("none", "none", "absent")
AlreadyRunning == Response("start", "Camera is already running", "absent")
FailedToOpen == Response("start", "Failed to open camera", "false")
Started == Response("start", "Camera started successfully", "true")
\* f"Error: {str(e)}": the message of the exception caught.
ErrorNoneType(route) ==
    Response(route, "Error: 'NoneType' object has no attribute", "false")
ErrorBadRequest == Response("start", "Error: 400 Bad Request", "false")
NotRunning(route) == Response(route, "Camera is not running", "false")
Stopped == Response("stop", "Camera stopped successfully", "true")
Toggled(d) ==
    [Response("toggle", "Detection toggled successfully", "true")
       EXCEPT !.detection_enabled = BoolStr(d)]
StatusResponse(running, d) ==
    [Response("status", "absent", "absent")
       EXCEPT !.camera_running = BoolStr(running),
              !.detection_enabled = BoolStr(IF running THEN d ELSE FALSE)]

\* The state of the module after import, in an environment drawn from the
\* given sets.
InitIn(files, loads, infers) ==
    /\ camera = None
    /\ hstate = [k \in Handles |-> "unborn"]
    /\ output_frame = NoFrame
    /\ lock = "free"
    /\ detection_enabled = TRUE
    /\ modelFile \in files
    /\ loadOk \in loads
    /\ inferOk \in infers
    /\ model = "none"
    /\ pc = [h \in Handlers |-> "idle"]
    /\ ret = [h \in Handlers |-> NoResponse]
    /\ tmp = [h \in Handlers |-> FALSE]
    /\ cpc = [t \in Threads |-> "unborn"]
    /\ cframe = [t \in Threads |-> NoFrame]
    /\ gpc = [g \in Generators |-> "unborn"]
    /\ genc = [g \in Generators |-> 0]
    /\ emitted = [g \in Generators |-> 0]
    /\ opens = 0
    /\ spawned = 0
    /\ nextSeq = 0
    /\ session = "Stopped"
    /\ repeat = [h \in Handlers |-> FALSE]

Init == InitIn(BOOLEAN, BOOLEAN, BOOLEAN)

\* The environment in which the model file is there and the detector works.
InitDetectorWorks == InitIn({TRUE}, {TRUE}, {TRUE})

AllIdle == \A h \in Handlers : pc[h] = "idle"

\* The route a handler is in at position p.
RouteOf(p) ==
    CASE p \in {"s_open", "s_isopen", "s_setdet", "s_spawn"} -> "start"
      [] p \in {"t_release", "t_none", "t_lock", "t_clear"} -> "stop"
      [] p \in {"g_read", "g_write", "g_ret"} -> "toggle"
      [] OTHER -> "status"

\* History: when a request arrives (the handler is idle), whether it repeats
\* the route of the handler's previous request, which had succeeded.
Arrives(h, route) ==
    repeat' = [repeat EXCEPT ![h] =
                 IF pc[h] = "idle"
                   THEN ret[h].route = route /\ ret[h].success = "true"
                   ELSE @]

\* A handler returns: the response is recorded and the thread is free again.
Return(h, r) ==
    /\ pc' = [pc EXCEPT ![h] = "idle"]
    /\ ret' = [ret EXCEPT ![h] = r]
    /\ tmp' = [tmp EXCEPT ![h] = FALSE]
    /\ Arrives(h, r.route)

\* A handler goes on to its next statement.
Goto(h, p) ==
    /\ pc' = [pc EXCEPT ![h] = p]
    /\ ret' = [ret EXCEPT ![h] = NoResponse]
    /\ Arrives(h, RouteOf(p))
    /\ UNCHANGED tmp

\* The same, storing v in the handler's local.
GotoWith(h, p, v) ==
    /\ pc' = [pc EXCEPT ![h] = p]
    /\ ret' = [ret EXCEPT ![h] = NoResponse]
    /\ tmp' = [tmp EXCEPT ![h] = v]
    /\ Arrives(h, RouteOf(p))

CapName(t) == "c" \o ToString(t)

(***************************************************************************)
(* start_camera                                                            *)
(***************************************************************************)

\* start_camera without its "camera is not None" test.
StartCallNoCheck(h) ==
    /\ pc[h] = "idle"
    /\ opens + Cardinality({k \in Handlers : pc[k] = "s_open"}) < MaxOpens
    /\ Goto(h, "s_open")
    /\ UNCHANGED <<camera, hstate, output_frame, lock, detection_enabled, env,
                   model, cvars, gvars, opens, spawned, nextSeq, session>>

\* The request arrives and the handler tests "camera is not None".
StartCall(h) ==
    /\ pc[h] = "idle"
    /\ opens + Cardinality({k \in Handlers : pc[k] = "s_open"}) < MaxOpens
    /\ IF camera # None
         THEN Return(h, AlreadyRunning)
         ELSE Goto(h, "s_open")
    /\ UNCHANGED <<camera, hstate, output_frame, lock, detection_enabled, env,
                   model, cvars, gvars, opens, spawned, nextSeq, session>>

\* camera = cv2.VideoCapture(0): the device opens or it does not.
StartOpen(h) ==
    /\ pc[h] = "s_open"
    /\ \E ok \in BOOLEAN :
         hstate' = [hstate EXCEPT ![opens + 1] = IF ok THEN "opened" ELSE "failed"]
    /\ opens' = opens + 1
    /\ camera' = opens + 1
    /\ Goto(h, "s_isopen")
    /\ UNCHANGED <<output_frame, lock, detection_enabled, env, model, tmp,
                   cvars, gvars, spawned, nextSeq, session>>

\* if not camera.isOpened(): the global is read again; on None the attribute
\* access raises and the except clause answers.
StartIsOpened(h) ==
    /\ pc[h] = "s_isopen"
    /\ IF camera = None
         THEN Return(h, ErrorNoneType("start"))
         ELSE IF hstate[camera] # "opened"
                THEN Return(h, FailedToOpen)
                ELSE Goto(h, "s_setdet")
    /\ UNCHANGED <<camera, hstate, output_frame, lock, detection_enabled, env,
                   model, cvars, gvars, opens, spawned, nextSeq, session>>

\* detection_enabled = request.json.get('detection', True) if request.is_json else True
\* A body that is declared JSON and does not parse raises inside request.json.
StartSetDetection(h) ==
    /\ pc[h] = "s_setdet"
    /\ \E b \in Bodies :
         /\ IF b = "bad"
              THEN /\ Return(h, ErrorBadRequest)
                   /\ UNCHANGED detection_enabled
              ELSE /\ detection_enabled' = (b # "false")
                   /\ Goto(h, "s_spawn")
    /\ UNCHANGED <<camera, hstate, output_frame, lock, env, model, cvars,
                   gvars, opens, spawned, nextSeq, session>>

\* threading.Thread(target=capture_frames, daemon=True).start(), then the
\* success response.
StartSpawn(h) ==
    /\ pc[h] = "s_spawn"
    /\ spawned' = spawned + 1
    /\ cpc' = [cpc EXCEPT ![spawned + 1] = "k_init"]
    /\ Return(h, Started)
    /\ session' = "Running"
    /\ UNCHANGED <<camera, hstate, output_frame, lock, detection_enabled, env,
                   model, cframe, gvars, opens, nextSeq>>

(***************************************************************************)
(* stop_camera                                                             *)
(***************************************************************************)

StopCall(h) ==
    /\ pc[h] = "idle"
    /\ IF camera = None
         THEN Return(h, NotRunning("stop"))
         ELSE Goto(h, "t_release")
    /\ UNCHANGED <<camera, hstate, output_frame, lock, detection_enabled, env,
                   model, cvars, gvars, opens, spawned, nextSeq, session>>

\* camera.release(): the global is read again.
StopRelease(h) ==
    /\ pc[h] = "t_release"
    /\ IF camera = None
         THEN /\ Return(h, ErrorNoneType("stop"))
              /\ UNCHANGED hstate
         ELSE /\ hstate' = [hstate EXCEPT ![camera] = "released"]
              /\ Goto(h, "t_none")
    /\ UNCHANGED <<camera, output_frame, lock, detection_enabled, env, model,
                   cvars, gvars, opens, spawned, nextSeq, session>>

\* camera = None
StopSetNone(h) ==
    /\ pc[h] = "t_none"
    /\ camera' = None
    /\ Goto(h, "t_lock")
    /\ UNCHANGED <<hstate, output_frame, lock, detection_enabled, env, model,
                   cvars, gvars, opens, spawned, nextSeq, session>>

\* with lock:
StopAcquire(h) ==
    /\ pc[h] = "t_lock"
    /\ lock = "free"
    /\ lock' = h
    /\ Goto(h, "t_clear")
    /\ UNCHANGED <<camera, hstate, output_frame, detection_enabled, env, model,
                   cvars, gvars, opens, spawned, nextSeq, session>>

\* output_frame = None, the lock is released, the success response.
StopClear(h) ==
    /\ pc[h] = "t_clear"
    /\ output_frame' = NoFrame
    /\ lock' = "free"
    /\ Return(h, Stopped)
    /\ session' = "Stopped"
    /\ UNCHANGED <<camera, hstate, detection_enabled, env, model, tmp,
                   cvars, gvars, opens, spawned, nextSeq>>

(***************************************************************************)
(* toggle_detection                                                        *)
(***************************************************************************)

ToggleCall(h) ==
    /\ pc[h] = "idle"
    /\ IF camera = None
         THEN Return(h, NotRunning("toggle"))
         ELSE Goto(h, "g_read")
    /\ UNCHANGED <<camera, hstate, output_frame, lock, detection_enabled, env,
                   model, cvars, gvars, opens, spawned, nextSeq, session>>

\* detection_enabled = not detection_enabled: the load ...
ToggleRead(h) ==
    /\ pc[h] = "g_read"
    /\ GotoWith(h, "g_write", detection_enabled)
    /\ UNCHANGED <<camera, hstate, output_frame, lock, detection_enabled, env,
                   model, cvars, gvars, opens, spawned, nextSeq, session>>

\* ... and the store.
ToggleWrite(h) ==
    /\ pc[h] = "g_write"
    /\ detection_enabled' = ~tmp[h]
    /\ Goto(h, "g_ret")
    /\ UNCHANGED <<camera, hstate, output_frame, lock, env, model, tmp,
                   cvars, gvars, opens, spawned, nextSeq, session>>

\* The response carries the global as it is read now.
ToggleReturn(h) ==
    /\ pc[h] = "g_ret"
    /\ Return(h, Toggled(detection_enabled))
    /\ UNCHANGED <<camera, hstate, output_frame, lock, detection_enabled, env,
                   model, cvars, gvars, opens, spawned, nextSeq, session>>

(***************************************************************************)
(* get_status                                                              *)
(***************************************************************************)

\* camera_running = camera is not None
camera_running == camera # None

StatusCall(h) ==
    /\ pc[h] = "idle"
    /\ GotoWith(h, "u_ret", camera_running)
    /\ UNCHANGED <<camera, hstate, output_frame, lock, detection_enabled, env,
                   model, cvars, gvars, opens, spawned, nextSeq, session>>

StatusReturn(h) ==
    /\ pc[h] = "u_ret"
    /\ Return(h, StatusResponse(tmp[h], detection_enabled))
    /\ UNCHANGED <<camera, hstate, output_frame, lock, detection_enabled, env,
                   model, cvars, gvars, opens, spawned, nextSeq, session>>

(***************************************************************************)
(* load_model, detect_objects                                              *)
(***************************************************************************)

\* load_model(): the value global model has afterwards.  torch.hub.load
\* raises without the file (caught: model stays None), and may raise with it.
load_model == IF modelFile /\ loadOk THEN "loaded" ELSE "none"

\* detect_objects(frame), given the value of model at its entry: the value
\* of model afterwards and whether boxes were drawn on the frame.  Without a
\* model the frame comes back as it is; an exception of the inference is
\* caught and logged.
detect_objects(m) ==
    LET m2 == IF m = "none" THEN load_model ELSE m
    IN  [model |-> m2, boxes |-> (m2 = "loaded" /\ inferOk)]

(***************************************************************************)
(* capture_frames                                                          *)
(***************************************************************************)

\* check_model_file(), then load_model() when model is None.
CaptureInit(t) ==
    /\ cpc[t] = "k_init"
    /\ IF ~modelFile
         THEN /\ cpc' = [cpc EXCEPT ![t] = "done"]
              /\ UNCHANGED model
         ELSE /\ cpc' = [cpc EXCEPT ![t] = "k_check"]
              /\ model' = IF model = "none" THEN load_model ELSE model
    /\ UNCHANGED <<camera, hstate, output_frame, lock, detection_enabled, env,
                   hvars, cframe, gvars, opens, spawned, nextSeq, session, repeat>>

\* while True: if camera is None: break
CaptureCheck(t) ==
    /\ cpc[t] = "k_check"
    /\ cpc' = [cpc EXCEPT ![t] = IF camera = None THEN "done" ELSE "k_read"]
    /\ UNCHANGED <<camera, hstate, output_frame, lock, detection_enabled, env,
                   model, hvars, cframe, gvars, opens, spawned, nextSeq, session, repeat>>

\* success, frame = camera.read(): the global is read again; on None the
\* attribute access raises and nothing in the thread catches it.
CaptureRead(t) ==
    /\ cpc[t] = "k_read"
    /\ IF camera = None
         THEN /\ cpc' = [cpc EXCEPT ![t] = "crashed"]
              /\ UNCHANGED <<cframe, nextSeq>>
         ELSE \/ /\ hstate[camera] = "opened"
                 /\ nextSeq < MaxFrames
                 /\ nextSeq' = nextSeq + 1
                 /\ cframe' = [cframe EXCEPT ![t] = [NoFrame EXCEPT !.seq = nextSeq + 1]]
                 /\ cpc' = [cpc EXCEPT ![t] = "k_detect"]
              \/ /\ cpc' = [cpc EXCEPT ![t] = "k_retry"]
                 /\ UNCHANGED <<cframe, nextSeq>>
    /\ UNCHANGED <<camera, hstate, output_frame, lock, detection_enabled, env,
                   model, hvars, gvars, opens, spawned, session, repeat>>

\* if not success: continue if camera is not None, else break
CaptureRetry(t) ==
    /\ cpc[t] = "k_retry"
    /\ cpc' = [cpc EXCEPT ![t] = IF camera # None THEN "k_check" ELSE "done"]
    /\ UNCHANGED <<camera, hstate, output_frame, lock, detection_enabled, env,
                   model, hvars, cframe, gvars, opens, spawned, nextSeq, session, repeat>>

\* capture_frames with detect_objects letting the exception of the inference
\* out: nothing in the thread catches it.
CaptureDetectUncaught(t) ==
    /\ cpc[t] = "k_detect"
    /\ IF detection_enabled
         THEN /\ model' = detect_objects(model).model
              /\ IF detect_objects(model).model = "loaded" /\ ~inferOk
                   THEN /\ cpc' = [cpc EXCEPT ![t] = "crashed"]
                        /\ UNCHANGED cframe
                   ELSE /\ cpc' = [cpc EXCEPT ![t] = "k_overlay"]
                        /\ cframe' = [cframe EXCEPT ![t].det = TRUE,
                                         ![t].boxes = detect_objects(model).boxes]
         ELSE /\ cpc' = [cpc EXCEPT ![t] = "k_overlay"]
              /\ UNCHANGED <<model, cframe>>
    /\ UNCHANGED <<camera, hstate, output_frame, lock, detection_enabled, env,
                   hvars, gvars, opens, spawned, nextSeq, session, repeat>>

\* if detection_enabled: frame = detect_objects(frame)
CaptureDetect(t) ==
    /\ cpc[t] = "k_detect"
    /\ IF detection_enabled
         THEN /\ model' = detect_objects(model).model
              /\ cframe' = [cframe EXCEPT ![t].det = TRUE,
                                          ![t].boxes = detect_objects(model).boxes]
         ELSE UNCHANGED <<model, cframe>>
    /\ cpc' = [cpc EXCEPT ![t] = "k_overlay"]
    /\ UNCHANGED <<camera, hstate, output_frame, lock, detection_enabled, env,
                   hvars, gvars, opens, spawned, nextSeq, session, repeat>>

\* cv2.putText(frame, f"Detection: {'ON' if detection_enabled else 'OFF'}", ...)
CaptureOverlay(t) ==
    /\ cpc[t] = "k_overlay"
    /\ cframe' = [cframe EXCEPT ![t].on = detection_enabled]
    /\ cpc' = [cpc EXCEPT ![t] = "k_lock"]
    /\ UNCHANGED <<camera, hstate, output_frame, lock, detection_enabled, env,
                   model, hvars, gvars, opens, spawned, nextSeq, session, repeat>>

\* capture_frames storing its frame without waiting for the lock.
CaptureAcquireNoLock(t) ==
    /\ cpc[t] = "k_lock"
    /\ lock' = CapName(t)
    /\ cpc' = [cpc EXCEPT ![t] = "k_publish"]
    /\ UNCHANGED <<camera, hstate, output_frame, detection_enabled, env, model,
                   hvars, cframe, gvars, opens, spawned, nextSeq, session, repeat>>

\* with lock:
CaptureAcquire(t) ==
    /\ cpc[t] = "k_lock"
    /\ lock = "free"
    /\ lock' = CapName(t)
    /\ cpc' = [cpc EXCEPT ![t] = "k_publish"]
    /\ UNCHANGED <<camera, hstate, output_frame, detection_enabled, env, model,
                   hvars, cframe, gvars, opens, spawned, nextSeq, session, repeat>>

\* output_frame = frame.copy(), the lock is released, back to the loop head.
CapturePublish(t) ==
    /\ cpc[t] = "k_publish"
    /\ output_frame' = cframe[t]
    /\ lock' = "free"
    /\ cframe' = [cframe EXCEPT ![t] = NoFrame]
    /\ cpc' = [cpc EXCEPT ![t] = "k_check"]
    /\ UNCHANGED <<camera, hstate, detection_enabled, env, model, hvars, gvars,
                   opens, spawned, nextSeq, session, repeat>>

(***************************************************************************)
(* video_feed, generate                                                    *)
(***************************************************************************)

\* A client requests /video_feed: Response(generate(), ...)
video_feed(g) ==
    /\ gpc[g] = "unborn"
    /\ gpc' = [gpc EXCEPT ![g] = "l_lock"]
    /\ UNCHANGED <<camera, hstate, output_frame, lock, detection_enabled, env,
                   model, hvars, cvars, genc, emitted, opens, spawned, nextSeq,
                   session, repeat>>

\* while True: with lock:
GenAcquire(g) ==
    /\ gpc[g] = "l_lock"
    /\ lock = "free"
    /\ lock' = g
    /\ gpc' = [gpc EXCEPT ![g] = "l_check"]
    /\ UNCHANGED <<camera, hstate, output_frame, detection_enabled, env, model,
                   hvars, cvars, genc, emitted, opens, spawned, nextSeq, session, repeat>>

\* generate with its yield inside the "with lock:" block: the lock is kept
\* while the generator is suspended.
GenCheckYieldsInLock(g) ==
    /\ gpc[g] = "l_check"
    /\ IF output_frame = NoFrame
         THEN /\ gpc' = [gpc EXCEPT ![g] = "l_lock"]
              /\ lock' = "free"
              /\ UNCHANGED genc
         ELSE \/ /\ genc' = [genc EXCEPT ![g] = output_frame.seq]
                 /\ gpc' = [gpc EXCEPT ![g] = "l_yield"]
                 /\ UNCHANGED lock
              \/ /\ gpc' = [gpc EXCEPT ![g] = "l_lock"]
                 /\ lock' = "free"
                 /\ UNCHANGED genc
    /\ UNCHANGED <<camera, hstate, output_frame, detection_enabled, env, model,
                   hvars, cvars, emitted, opens, spawned, nextSeq, session, repeat>>

\* if output_frame is None: continue; cv2.imencode, continue when it fails.
\* Each way out of the with block releases the lock.
GenCheck(g) ==
    /\ gpc[g] = "l_check"
    /\ lock' = "free"
    /\ IF output_frame = NoFrame
         THEN /\ gpc' = [gpc EXCEPT ![g] = "l_lock"]
              /\ UNCHANGED genc
         ELSE \/ /\ genc' = [genc EXCEPT ![g] = output_frame.seq]
                 /\ gpc' = [gpc EXCEPT ![g] = "l_yield"]
              \/ /\ gpc' = [gpc EXCEPT ![g] = "l_lock"]
                 /\ UNCHANGED genc
    /\ UNCHANGED <<camera, hstate, output_frame, detection_enabled, env, model,
                   hvars, cvars, emitted, opens, spawned, nextSeq, session, repeat>>

\* yield(b'--frame...' + bytearray(encoded_frame) + b'\r\n'): the chunk is sent.
GenYield(g) ==
    /\ gpc[g] = "l_yield"
    /\ emitted' = [emitted EXCEPT ![g] = genc[g]]
    /\ genc' = [genc EXCEPT ![g] = 0]
    /\ gpc' = [gpc EXCEPT ![g] = "l_lock"]
    /\ UNCHANGED <<camera, hstate, output_frame, lock, detection_enabled, env,
                   model, hvars, cvars, opens, spawned, nextSeq, session, repeat>>

\* The client goes away: the server closes the generator where it is
\* suspended, at its yield.
ClientDisconnect(g) ==
    /\ gpc[g] = "l_yield"
    /\ gpc' = [gpc EXCEPT ![g] = "closed"]
    /\ genc' = [genc EXCEPT ![g] = 0]
    /\ UNCHANGED <<camera, hstate, output_frame, lock, detection_enabled, env,
                   model, hvars, cvars, emitted, opens, spawned, nextSeq, session, repeat>>

(***************************************************************************)
(* Specifications                                                          *)
(***************************************************************************)

start_camera(h) ==
    \/ StartCall(h)
    \/ StartOpen(h)
    \/ StartIsOpened(h)
    \/ StartSetDetection(h)
    \/ StartSpawn(h)

stop_camera(h) ==
    \/ StopCall(h)
    \/ StopRelease(h)
    \/ StopSetNone(h)
    \/ StopAcquire(h)
    \/ StopClear(h)

toggle_detection(h) ==
    \/ ToggleCall(h)
    \/ ToggleRead(h)
    \/ ToggleWrite(h)
    \/ ToggleReturn(h)

get_status(h) ==
    \/ StatusCall(h)
    \/ StatusReturn(h)

capture_frames(t) ==
    \/ CaptureInit(t)
    \/ CaptureCheck(t)
    \/ CaptureRead(t)
    \/ CaptureRetry(t)
    \/ CaptureDetect(t)
    \/ CaptureOverlay(t)
    \/ CaptureAcquire(t)
    \/ CapturePublish(t)

generate(g) ==
    \/ GenAcquire(g)
    \/ GenCheck(g)
    \/ GenYield(g)

\* The threaded server: every route on every handler thread, the capture
\* threads and the generators, in any environment.  Its state space is beyond
\* exhaustive search at these bounds (more than 10^8 states): the properties
\* are checked under the restrictions of it that follow, each of which keeps
\* every step of the threads it includes.
Next ==
    \/ \E h \in Handlers : start_camera(h)
    \/ \E h \in Handlers : stop_camera(h)
    \/ \E h \in Handlers : toggle_detection(h)
    \/ \E h \in Handlers : get_status(h)
    \/ \E t \in Threads : capture_frames(t)
    \/ \E g \in Generators : video_feed(g) \/ generate(g) \/ ClientDisconnect(g)

Spec == Init /\ [][Next]_vars

\* Concurrent /start_camera and /stop_camera requests, no viewer.
ConcNext ==
    \/ \E h \in Handlers : start_camera(h)
    \/ \E h \in Handlers : stop_camera(h)
    \/ \E t \in Threads : capture_frames(t)

ConcSpec == InitDetectorWorks /\ [][ConcNext]_vars

\* One client that waits for each response before its next request: only
\* SeqHandler is ever busy.  The capture threads run concurrently with it.
SeqNext ==
    \/ start_camera(SeqHandler)
    \/ stop_camera(SeqHandler)
    \/ toggle_detection(SeqHandler)
    \/ get_status(SeqHandler)
    \/ \E t \in Threads : capture_frames(t)

SeqSpec == InitDetectorWorks /\ [][SeqNext]_vars

\* The same client in any environment: the model file there or not, the
\* model loading or not, the inference returning or raising.
SeqEnvSpec == Init /\ [][SeqNext]_vars

\* One client starting and stopping the camera, and one viewer.
StreamNext ==
    \/ start_camera(SeqHandler)
    \/ stop_camera(SeqHandler)
    \/ \E t \in Threads : capture_frames(t)
    \/ video_feed(OneViewer) \/ generate(OneViewer) \/ ClientDisconnect(OneViewer)

\* Every thread that can run again and again is scheduled in the end, and a
\* thread that waits for the lock gets it in the end.  Requests arriving,
\* clients disconnecting and camera reads succeeding are not forced.
Fairness ==
    /\ SF_vars(start_camera(SeqHandler) /\ pc[SeqHandler] # "idle")
    /\ SF_vars(stop_camera(SeqHandler) /\ pc[SeqHandler] # "idle")
    /\ \A t \in Threads : SF_vars(capture_frames(t))
    /\ \A g \in Generators : SF_vars(generate(g))

FairSpec == InitDetectorWorks /\ [][StreamNext]_vars /\ Fairness

\* The same in the environment in which the model loads and model(rgb_frame)
\* raises on every call.
InitDetectorRaises == InitIn({TRUE}, {TRUE}, {FALSE})

RaiseSpec == InitDetectorRaises /\ [][StreamNext]_vars /\ Fairness

\* One client starting the camera, and several viewers.
ViewersNext ==
    \/ start_camera(SeqHandler)
    \/ \E t \in Threads : capture_frames(t)
    \/ \E g \in Generators : video_feed(g) \/ generate(g) \/ ClientDisconnect(g)

ViewersSpec == InitDetectorWorks /\ [][ViewersNext]_vars

\* The same with the client stopping the camera too.
ViewersStopNext ==
    \/ ViewersNext
    \/ stop_camera(SeqHandler)

ViewersStopSpec == InitDetectorWorks /\ [][ViewersStopNext]_vars

(***************************************************************************)
(* Properties                                                              *)
(***************************************************************************)

\* The positions of capture_frames inside its while loop.
InLoop == {"k_check", "k_read", "k_retry", "k_detect", "k_overlay", "k_lock",
           "k_publish"}

LoopsAlive == {t \in Threads : cpc[t] \in InLoop}

\* C1: whenever no call is in progress the session is Stopped or Running, and
\* the global camera is not None exactly when the session is Running (a start
\* succeeded and no successful stop followed it).
C1_HandleIffRunning ==
    AllIdle =>
        /\ session \in {"Stopped", "Running"}
        /\ (camera # None) <=> (session = "Running")

\* C2: start_camera calls racing from a Stopped session, every camera opening
\* and every body well-formed: cv2.VideoCapture is invoked at most once, one
\* call answers "Camera started successfully" and every other call answers
\* "Camera is already running".
OnlyStartsTookEffect ==
    /\ \A k \in Handles : hstate[k] \in {"unborn", "opened"}
    /\ \A h \in Handlers : pc[h] \in {"idle", "s_open", "s_isopen", "s_setdet", "s_spawn"}
    /\ \A h \in Handlers : ret[h] # ErrorBadRequest

C2_ConcurrentStartOpensOnce ==
    OnlyStartsTookEffect =>
        /\ opens <= 1
        /\ Cardinality({h \in Handlers : ret[h] = Started}) <= 1
        /\ \A h \in Handlers :
             (pc[h] = "idle" /\ ret[h].route = "start")
                => ret[h] \in {Started, AlreadyRunning}
        /\ (AllIdle /\ opens >= 1) => session = "Running"

\* C3: when the camera fails to open on a Stopped session, start_camera
\* answers success = false, spawns no capture loop and leaves the session
\* Stopped: get_status would report camera_running = false and the next
\* start_camera would open the camera again.
C3_FailedOpenStaysStopped ==
    [][\A h \in Handlers :
         (StartIsOpened(h) /\ session = "Stopped" /\ camera # None
                           /\ hstate[camera] = "failed")
            => /\ pc'[h] = "idle"
               /\ ret'[h].success = "false"
               /\ spawned' = spawned
               /\ session' = "Stopped"
               /\ ~camera_running']_vars

\* C4: from a successful stop_camera to the next successful start_camera the
\* Frame Slot is empty: no capture loop publishes into it after the stop
\* cleared it.
C4_SlotEmptyWhileStopped ==
    session = "Stopped" => output_frame = NoFrame

\* The positions of generate between its creation and its end.
GenActive == {"l_lock", "l_check", "l_yield"}

\* C5: under fair scheduling, a Stream Generator that is active when
\* stop_camera has returned its success result eventually ends its response.
C5_GeneratorsEndAfterStop ==
    \A g \in Generators :
        (gpc[g] \in GenActive /\ ret[SeqHandler] = Stopped) ~> (gpc[g] = "closed")

\* C6: under fair scheduling, a capture loop that is alive when stop_camera
\* has returned its success result eventually exits, whatever request follows.
C6_CaptureLoopExitsAfterStop ==
    \A t \in Threads :
        (cpc[t] \in InLoop /\ ret[SeqHandler] = Stopped)
            ~> (cpc[t] \in {"done", "crashed"})

\* C7: at most one capture loop is alive at a time.
C7_OneCaptureLoop ==
    Cardinality(LoopsAlive) <= 1

\* C8: toggle_detection on a Stopped session answers "Camera is not running"
\* with success = false and leaves detection_enabled as it is; on a Running
\* session it negates detection_enabled and answers success = true with the
\* new value.
C8_ToggleNeedsRunning ==
    [][\A h \in Handlers :
         /\ (ToggleCall(h) /\ session = "Stopped")
               => /\ pc'[h] = "idle"
                  /\ ret'[h] = NotRunning("toggle")
                  /\ detection_enabled' = detection_enabled
         /\ (ToggleCall(h) /\ session = "Running") => pc'[h] = "g_read"
         /\ ToggleWrite(h) => detection_enabled' = ~detection_enabled
         /\ ToggleReturn(h)
               => /\ ret'[h].success = "true"
                  /\ ret'[h].detection_enabled = BoolStr(~tmp[h])
                  /\ detection_enabled' = ~tmp[h]]_vars

\* C9: every published frame carries the overlay "Detection: ON" exactly when
\* detect_objects was called for it.
C9_OverlayMatchesDetection ==
    output_frame # NoFrame => (output_frame.on <=> output_frame.det)

\* C10: a stop_camera right after a successful stop_camera answers "Camera is
\* not running" and changes neither camera, output_frame nor
\* detection_enabled; a start_camera right after a successful start_camera
\* answers "Camera is already running", opens no camera, spawns no capture
\* loop and leaves detection_enabled as it is.
C10_SequentialIdempotence ==
    [][\A h \in Handlers :
         /\ (StopCall(h) /\ ret[h] = Stopped)
               => /\ pc'[h] = "idle"
                  /\ ret'[h] = NotRunning("stop")
                  /\ UNCHANGED <<camera, hstate, output_frame, detection_enabled>>
         /\ (StartCall(h) /\ ret[h] = Started)
               => /\ pc'[h] = "idle"
                  /\ ret'[h] = AlreadyRunning
                  /\ UNCHANGED <<camera, hstate, opens, spawned, cpc,
                                 detection_enabled>>]_vars

\* C10, reached: a start answered "already running" right after a successful
\* start, with one camera opened and one capture thread spawned.
C10_Witness ==
    /\ repeat[SeqHandler]
    /\ pc[SeqHandler] = "idle"
    /\ ret[SeqHandler] = AlreadyRunning
    /\ opens = 1
    /\ spawned = 1

\* C11: get_status is a pure read: it changes nothing of the session, reports
\* camera_running = true exactly when the session is Running and
\* detection_enabled = the flag when Running, false otherwise; called right
\* after a successful toggle_detection it reports the value that toggle
\* returned.
C11_StatusReportsSession ==
    [][\A h \in Handlers :
         /\ (StatusCall(h) \/ StatusReturn(h))
               => UNCHANGED <<camera, hstate, output_frame, lock,
                              detection_enabled, model, cvars, opens, spawned,
                              session>>
         /\ (StatusCall(h) /\ ret[h].route = "toggle" /\ ret[h].success = "true")
               => ret[h].detection_enabled = BoolStr(detection_enabled)
         /\ StatusReturn(h)
               => /\ ret'[h].camera_running = BoolStr(session = "Running")
                  /\ ret'[h].detection_enabled
                        = BoolStr(session = "Running" /\ detection_enabled)]_vars

\* The positions of capture_frames between a successful camera.read() and the
\* end of the iteration, and the position that follows each.
AfterRead == {"k_detect", "k_overlay", "k_lock", "k_publish"}

NextPos(p) ==
    CASE p = "k_detect" -> "k_overlay"
      [] p = "k_overlay" -> "k_lock"
      [] p = "k_lock" -> "k_publish"
      [] OTHER -> "k_check"

\* A capture loop holding a frame can take its next step, unless it waits for
\* the lock, and then the thread that holds the lock can release it.
CaptureNotStalled ==
    \A t \in Threads :
        cpc[t] \in AfterRead =>
            IF cpc[t] = "k_lock" /\ lock # "free"
              THEN \/ \E g \in Generators : lock = g /\ ENABLED GenCheck(g)
                   \/ \E h \in Handlers : lock = h /\ ENABLED StopClear(h)
                   \/ \E u \in Threads : lock = CapName(u) /\ ENABLED CapturePublish(u)
              ELSE ENABLED capture_frames(t)

\* C12: with a detector that raises on every call, a capture loop that has
\* read a frame neither exits nor stalls: each of its steps takes it one
\* statement further with the same frame, without boxes, the last one stores
\* that frame in output_frame and returns to the head of the loop, and it can
\* always take its next step (or the holder of the lock can release it).  A
\* viewer that finds the frame in the slot can encode and send it.
C12_RaisingDetectorStillPublishes ==
    /\ [](CaptureNotStalled
          /\ \A g \in Generators :
               (gpc[g] = "l_check" /\ output_frame # NoFrame)
                  => ENABLED (GenCheck(g) /\ gpc'[g] = "l_yield"))
    /\ [][\A t \in Threads :
            (cpc[t] \in AfterRead /\ cpc'[t] # cpc[t])
               => /\ cpc'[t] = NextPos(cpc[t])
                  /\ IF cpc[t] = "k_publish"
                       THEN /\ output_frame' = cframe[t]
                            /\ output_frame'.seq # 0
                            /\ ~output_frame'.boxes
                       ELSE /\ cframe'[t].seq = cframe[t].seq
                            /\ ~cframe'[t].boxes]_vars

\* C12, reached: detect_objects was called for the frame in the slot, which
\* carries no box, and a viewer has encoded it.
C12_Witness ==
    /\ ~inferOk
    /\ output_frame.seq # 0
    /\ output_frame.det
    /\ ~output_frame.boxes
    /\ \E g \in Generators : gpc[g] = "l_yield" /\ genc[g] = output_frame.seq

\* C13: when yolov5s.pt is absent, no start_camera answers "Camera started
\* successfully" and the session stays Stopped.
C13_NoModelFileStartFails ==
    ~modelFile =>
        /\ session = "Stopped"
        /\ \A h \in Handlers : ret[h] # Started

\* C14: when the model is unavailable (yolov5s.pt missing, or load_model
\* failing), a capture thread enters its loop, and every frame it has read
\* goes, statement by statement and without boxes, into output_frame, with
\* detection enabled or not.
C14_ModelUnavailablePassthrough ==
    [][(~modelFile \/ ~loadOk) =>
         \A t \in Threads :
            /\ CaptureInit(t) => cpc'[t] = "k_check"
            /\ (cpc[t] \in AfterRead /\ cpc'[t] # cpc[t])
                  => /\ cpc'[t] = NextPos(cpc[t])
                     /\ IF cpc[t] = "k_publish"
                          THEN /\ output_frame' = cframe[t]
                               /\ output_frame'.seq # 0
                               /\ ~output_frame'.boxes
                          ELSE /\ cframe'[t].seq = cframe[t].seq
                               /\ ~cframe'[t].boxes]_vars

\* C15: every response of start_camera, stop_camera and toggle_detection
\* carries a status string and a success boolean.
C15_StructuredResponses ==
    \A h \in Handlers :
        (pc[h] = "idle" /\ ret[h].route \in {"start", "stop", "toggle"})
            => /\ ret[h].status \notin {"absent", "none"}
               /\ ret[h].success \in {"true", "false"}

\* C16: the frames one generator sends are in capture order: the frame of
\* each yield was read from the camera no earlier than the frame of the yield
\* before it.
C16_EmittedInCaptureOrder ==
    [][\A g \in Generators : emitted'[g] >= emitted[g]]_vars

\* The threads inside a "with lock:" block.
LockHolders ==
    {h \in Handlers : pc[h] = "t_clear"}
        \cup {CapName(t) : t \in {u \in Threads : cpc[u] = "k_publish"}}
        \cup {g \in Generators : gpc[g] = "l_check"}

\* C17: at most one thread is inside a "with lock:" block and it is the one
\* the lock names; output_frame is written only by the thread holding the
\* lock (a publish or the clear of stop_camera); a generator tests and encodes
\* output_frame holding the lock, the slot does not change while it holds
\* it, and what it encodes is the frame then in the slot, which is the last
\* one written.
C17_SlotOnlyUnderLock ==
    /\ [](/\ Cardinality(LockHolders) <= 1
          /\ lock = "free" <=> LockHolders = {}
          /\ lock # "free" => lock \in LockHolders)
    /\ [][/\ output_frame' # output_frame
               => \/ \E t \in Threads : CapturePublish(t) /\ lock = CapName(t)
                  \/ \E h \in Handlers : StopClear(h) /\ lock = h
          /\ \A g \in Generators :
               /\ GenCheck(g)
                    => /\ lock = g
                       /\ output_frame' = output_frame
                       /\ gpc'[g] = "l_yield"
                            => /\ output_frame # NoFrame
                               /\ genc'[g] = output_frame.seq
               /\ gpc[g] = "l_check" => output_frame' = output_frame]_vars

\* C17, reached: a generator is inside its "with lock:" block with a published
\* frame in the slot while a capture thread and stop_camera wait for the lock.
C17_Witness ==
    /\ \E g \in Generators : gpc[g] = "l_check" /\ lock = g
    /\ output_frame # NoFrame
    /\ \E t \in Threads : cpc[t] = "k_lock"
    /\ \E h \in Handlers : pc[h] = "t_lock"

\* The lock is free, or the thread holding it can leave its "with lock:"
\* block by a step of its own.
LockCanBeReleased ==
    \/ lock = "free"
    \/ \E g \in Generators : lock = g /\ gpc[g] = "l_check" /\ ENABLED GenCheck(g)
    \/ \E h \in Handlers : lock = h /\ ENABLED StopClear(h)
    \/ \E t \in Threads : lock = CapName(t) /\ ENABLED CapturePublish(t)

\* The generators suspended at their yield.
AtYield == {g \in Generators : gpc[g] = "l_yield"}

\* C18: a generator suspended at its yield does not hold the lock; however
\* many generators are suspended there, a capture loop with a frame to
\* publish and every other generator can take the lock when it is free, the
\* holder of the lock can release it without any step of a suspended
\* generator, and a generator that finds a frame in the slot can encode it.
C18_BlockedViewerHoldsNoLock ==
    /\ \A g \in AtYield : lock # g
    /\ LockCanBeReleased
    /\ \A t \in Threads :
         (cpc[t] = "k_lock" /\ lock = "free") => ENABLED CaptureAcquire(t)
    /\ \A t \in Threads : cpc[t] = "k_publish" => ENABLED CapturePublish(t)
    /\ \A g \in Generators \ AtYield :
         /\ (gpc[g] = "l_lock" /\ lock = "free") => ENABLED GenAcquire(g)
         /\ (gpc[g] = "l_check" /\ output_frame # NoFrame)
               => ENABLED (GenCheck(g) /\ gpc'[g] = "l_yield")

\* C18, reached: while one generator stays suspended at its yield with frame
\* 1, the capture loop has published frame 2 and another generator has
\* encoded it.
C18_Witness ==
    \E g1, g2 \in Generators :
        /\ gpc[g1] = "l_yield" /\ genc[g1] = 1
        /\ gpc[g2] = "l_yield" /\ genc[g2] = 2
        /\ output_frame.seq = 2

\* C19: whenever camera is not None and no start_camera call is in progress,
\* exactly one capture thread is alive (started and not yet returned).
C19_RunningHasOneLoop ==
    (camera # None /\ \A h \in Handlers : pc[h] = "idle" \/ RouteOf(pc[h]) # "start")
        => Cardinality({t \in Threads : cpc[t] \in InLoop \cup {"k_init"}}) = 1

\* C20: no capture thread evaluates camera.read() while camera is None: a
\* loop that passed its "camera is None" test reads from a handle, and no
\* thread ends by the exception of a None dereference.
C20_NoReadOnNone ==
    /\ \A t \in Threads : cpc[t] # "crashed"
    /\ \A t \in Threads : cpc[t] = "k_read" => camera # None

\* The positions of stop_camera after its "camera is None" test.
InStop == {"t_release", "t_none", "t_lock", "t_clear"}

\* C21: of stop_camera calls running concurrently on a session that was
\* started successfully (every camera opened so far got its capture thread),
\* one releases the handle and answers "Camera stopped successfully": a call
\* arriving while another is past its test answers "Camera is not running",
\* release() is never called on a handle already released nor on None, and no
\* call ends in the except clause.
C21_ConcurrentStopReleasesOnce ==
    [][(opens >= 1 /\ opens = spawned) =>
         \A h \in Handlers :
            /\ (StopCall(h) /\ \E k \in Handlers \ {h} : pc[k] \in InStop)
                  => /\ pc'[h] = "idle"
                     /\ ret'[h] = NotRunning("stop")
            /\ StopRelease(h)
                  => /\ camera # None
                     /\ hstate[camera] # "released"
                     /\ ret'[h] # ErrorNoneType("stop")]_vars

====
